---- MODULE Spec2Model ----
(***************************************************************************)
(* Context-aware rule engine of pcw-toolbelt: rule loading from the        *)
(* bundled, workspace and remote sources, merging, severity overrides and  *)
(* the rules cache (src/src/core/ContextManager.ts), and the audit         *)
(* commands built on it (src/src/core/auditor.ts).                         *)
(***************************************************************************)
EXTENDS Integers, Sequences, FiniteSets, TLC

VARIABLES
    root,        \* vscode.workspace.workspaceFolders[0].uri.fsPath, or NoRoot
    ext,         \* state of the installed extension's bundled rules
    wsFile,      \* context -> content of <root>/.pcw-rules/<context>-rules.json
    cfgFile,     \* content of <root>/.pcw-rules/config.json
    rulesCache,  \* ContextManager.rulesCache: Map<string, RuleSet>
    call,        \* the loadRules invocations in progress, one record per slot
    clears,      \* history: number of clearCache calls so far
    loads,       \* history: number of loadRules calls so far
    builtAt,     \* history: cache key -> values of clears when its sources were read
                 \* and when it was stored, and whether a fetch of its build failed
    firstRet,    \* history: cache key -> first rule set returned since the last clear
    calledSince, \* history: cache keys loadRules was called for since the last clear
    tree,        \* the files of the workspace folder: extension and text
    cancelRequested, \* token.isCancellationRequested of the workspace audit
    audit,       \* the auditWorkspace command in progress
    document,    \* the text of the active editor's document
    fix,         \* the applyAutoFixes command in progress
    contexts     \* the detectAllContexts call made on the document, and its result

auditVars == <<tree, cancelRequested, audit>>
editorVars == <<document, fix, contexts>>
vars == <<root, ext, wsFile, cfgFile, rulesCache, call,
          clears, loads, builtAt, firstRet, calledSince, tree, cancelRequested, audit,
          document, fix, contexts>>

(***************************************************************************)
(* Bounds of the model.                                                    *)
(***************************************************************************)
MaxLoads == 3
MaxClears == 1
MaxBuildLoads == 2

\* slots for the loadRules invocations that overlap in time
Calls == {1, 2}

(***************************************************************************)
(* Values.                                                                 *)
(***************************************************************************)
Null == [null |-> TRUE]
Undef == "undefined"
NoRoot == "(no folder)"
Severities == {"error", "warning", "info"}
LoadContexts == {"wordpress", "react", "unknown"}
Urls == {"u1", "u2"}

\* a rule's fix without a replace, and one with it
NoFix == [replace |-> FALSE]
Fix(pattern, replacement, flags) ==
    [replace |-> TRUE, pattern |-> pattern, replacement |-> replacement, flags |-> flags]

Rule(id, pattern, message, severity, suggestion) ==
    [id |-> id, pattern |-> pattern, message |-> message,
     severity |-> severity, mustExist |-> FALSE, suggestion |-> suggestion,
     fix |-> NoFix]

\* rule.id || rule.pattern
Ident(rule) ==
    IF rule.id # "" /\ rule.id # Undef THEN rule.id ELSE rule.pattern

(***************************************************************************)
(* The source documents the model draws from.                              *)
(***************************************************************************)
BundledFile(context) ==
    IF context = "wordpress"
    THEN [context |-> "wordpress", description |-> "WordPress rules", shape |-> "ruleset",
          rules |-> << Rule("no-eval", "a", "b1", "error", "use-x"),
                       Rule(Undef, "b", "b2", "warning", Undef) >>]
    ELSE [context |-> "react", description |-> "", shape |-> "ruleset",
          rules |-> << Rule("hooks", "a", "b3", "info", Undef) >>]

WsOverride1 ==
    [context |-> "wordpress", description |-> "team", shape |-> "ruleset",
     rules |-> << Rule("no-eval", "ab", "w1", "info", Undef) >>]

WsOverride2 ==
    [context |-> "react", description |-> "team", shape |-> "ruleset",
     rules |-> << Rule("b", "a", "w2", "error", Undef),
                  Rule("", "ab", "w3", "info", "s3"),
                  Rule("b", "b", "w4", "info", Undef) >>]

WsFileContents(context) ==
    IF context = "wordpress"
    THEN { [state |-> "absent"], [state |-> "unparsable"], [state |-> "ok", doc |-> WsOverride1] }
    ELSE { [state |-> "absent"], [state |-> "ok", doc |-> WsOverride2] }

Lookup(map, key) == IF key \in DOMAIN map THEN map[key] ELSE Undef

\* a config without severityOverrides: no context has an entry
NoOverrides == [x \in {} |-> Undef]

SevA == [wordpress |-> [b |-> "critical"] @@ ("no-eval" :> "warning"),
         react |-> [hooks |-> ""]]
SevB == [react |-> [b |-> "warning", ab |-> "error"] @@ ("no-eval" :> "info")]

CfgOneFeed ==
    [state |-> "ok", doc |-> [severityOverrides |-> SevA, repositories |-> << "u1" >>]]
CfgTwoFeeds ==
    [state |-> "ok", doc |-> [severityOverrides |-> SevB, repositories |-> << "u1", "u2" >>]]
CfgFileContents ==
    { [state |-> "absent"], [state |-> "unparsable"],
      [state |-> "ok", doc |-> [severityOverrides |-> NoOverrides, repositories |-> << >>]],
      CfgOneFeed, CfgTwoFeeds }

FeedNoContext ==
    [context |-> Undef, description |-> "feed", shape |-> "ruleset",
     rules |-> << Rule("no-eval", "a", "f1", "warning", Undef),
                  Rule(Undef, "ab", "f2", "error", Undef) >>]
FeedWordpress ==
    [context |-> "wordpress", description |-> "feed", shape |-> "ruleset",
     rules |-> << Rule("b", "ab", "f3", "error", "s4"),
                  Rule("no-eval", "b", "f4", "info", Undef) >>]
FeedNoRules ==
    [context |-> Undef, description |-> "feed", shape |-> "norules", rules |-> << >>]

\* what https.get delivers for a request that is answered: an error event
\* of the request, or a response with a status code and a body
FetchOutcomes ==
    { [event |-> "error"] }
    \cup { [event |-> "response", statusCode |-> s, body |-> [json |-> FALSE]] :
             s \in {200, 400, 500} }
    \cup { [event |-> "response", statusCode |-> s, body |-> [json |-> TRUE, doc |-> d]] :
             s \in {200, 400}, d \in {FeedNoContext, FeedWordpress, FeedNoRules} }

\* history: a fetch failed (status of 400 or more, network error, unparsable
\* body), or it delivered a document
Failed(outcome) ==
    \/ outcome.event = "error"
    \/ outcome.event = "response" /\ (outcome.statusCode >= 400 \/ ~outcome.body.json)
Answer(outcome) ==
    IF Failed(outcome) THEN [failed |-> TRUE]
    ELSE [failed |-> FALSE, doc |-> outcome.body.doc]

(***************************************************************************)
(* ContextManager: pure helpers.                                           *)
(***************************************************************************)
GetCacheKey(context) ==
    << IF root = NoRoot THEN "global" ELSE root, context >>

\* variant of CachedRules: the cache is not looked at
CachedRulesNever(context) == Null

\* loadRules for a category whose rule set is cached
CachedRules(context) ==
    IF GetCacheKey(context) \in DOMAIN rulesCache THEN rulesCache[GetCacheKey(context)]
    ELSE Null

\* variant of LoadBaseRuleSet: a bundled file that cannot be read or parsed
\* counts as no bundled file
LoadBaseRuleSetLenient(context) ==
    CASE ext \in {"nopath", "nofile", "corrupt"} -> [threw |-> FALSE, val |-> Null, io |-> 1]
      [] OTHER -> [threw |-> FALSE, io |-> 2,
                   val |-> BundledFile(context) @@ [source |-> "extension"]]

\* loadBaseRuleSet: [threw, val]
LoadBaseRuleSet(context) ==
    CASE ext = "nopath"  -> [threw |-> TRUE, val |-> Null, io |-> 0]
      [] ext = "nofile"  -> [threw |-> FALSE, val |-> Null, io |-> 1]
      [] ext = "corrupt" -> [threw |-> TRUE, val |-> Null, io |-> 2]
      [] OTHER -> [threw |-> FALSE, io |-> 2,
                   val |-> BundledFile(context) @@ [source |-> "extension"]]

\* variant of LoadWorkspaceRuleSets: the SyntaxError of JSON.parse is not caught
LoadWorkspaceRuleSetsUncaught(context) ==
    IF root = NoRoot THEN [threw |-> FALSE, val |-> << >>, io |-> 0]
    ELSE IF wsFile[context].state = "absent" THEN [threw |-> FALSE, val |-> << >>, io |-> 1]
    ELSE IF wsFile[context].state = "unparsable" THEN [threw |-> TRUE, val |-> << >>, io |-> 2]
    ELSE [threw |-> FALSE, io |-> 2,
          val |-> << wsFile[context].doc @@ [source |-> "workspace file"] >>]

\* loadWorkspaceRuleSets: [threw, val]; it catches what reading and parsing throw
LoadWorkspaceRuleSets(context) ==
    IF root = NoRoot THEN [threw |-> FALSE, val |-> << >>, io |-> 0]
    ELSE IF wsFile[context].state = "absent" THEN [threw |-> FALSE, val |-> << >>, io |-> 1]
    ELSE IF wsFile[context].state = "unparsable" THEN [threw |-> FALSE, val |-> << >>, io |-> 2]
    ELSE [threw |-> FALSE, io |-> 2,
          val |-> << wsFile[context].doc @@ [source |-> "workspace file"] >>]

\* loadWorkspaceConfig
LoadWorkspaceConfig ==
    IF root = NoRoot THEN [threw |-> FALSE, val |-> Null, io |-> 0]
    ELSE IF cfgFile.state = "absent" THEN [threw |-> FALSE, val |-> Null, io |-> 1]
    ELSE IF cfgFile.state = "unparsable" THEN [threw |-> FALSE, val |-> Null, io |-> 2]
    ELSE [threw |-> FALSE, val |-> cfgFile.doc, io |-> 2]

\* config?.repositories, with undefined and [] both read as no URL
Repositories(config) == IF config = Null THEN << >> ELSE config.repositories

\* variant of MapSet: an entry that is overwritten moves to the end
MapSetMovingToEnd(m, key, val) ==
    Append(SelectSeq(m, LAMBDA e : e.key # key), [key |-> key, val |-> val])

\* Map.set on an insertion-ordered map kept as a sequence of entries
MapSet(m, key, val) ==
    IF \E i \in 1..Len(m) : m[i].key = key
    THEN [i \in 1..Len(m) |-> IF m[i].key = key THEN [key |-> key, val |-> val] ELSE m[i]]
    ELSE Append(m, [key |-> key, val |-> val])

\* variants of MergeRule: the first rule of an identity is kept; every rule
\* is pushed without looking at its identity
MergeRuleKeepFirst(m, rule) ==
    IF \E i \in 1..Len(m) : m[i].key = Ident(rule) THEN m
    ELSE MapSet(m, Ident(rule), rule)
MergeRulePush(m, rule) == Append(m, [key |-> Ident(rule), val |-> rule])

\* merged.set(key, { ...rule })
MergeRule(m, rule) == MapSet(m, Ident(rule), rule)

RECURSIVE MergeRules(_, _)
MergeRules(m, rules) ==
    IF rules = << >> THEN m
    ELSE MergeRules(MergeRule(m, Head(rules)), Tail(rules))

RECURSIVE MergeSets(_, _)
MergeSets(m, ruleSets) ==
    IF ruleSets = << >> THEN [threw |-> FALSE, map |-> m]
    ELSE IF Head(ruleSets).shape # "ruleset" THEN [threw |-> TRUE, map |-> m]
    ELSE MergeSets(MergeRules(m, Head(ruleSets).rules), Tail(ruleSets))

\* mergeRuleSets: Array.from(merged.values()), or a TypeError when a set has
\* no iterable rules
MergeRuleSets(ruleSets) ==
    LET r == MergeSets(<< >>, ruleSets)
    IN  [threw |-> r.threw, val |-> [i \in 1..Len(r.map) |-> r.map[i].val]]

\* variant of OverrideRule: the override value is not validated
OverrideRuleUnchecked(rule, overrides) ==
    LET override == Lookup(overrides, Ident(rule))
    IN  IF override = Undef \/ override = "" THEN rule
        ELSE [rule EXCEPT !.severity = override]

OverrideRule(rule, overrides) ==
    LET override == Lookup(overrides, Ident(rule))
    IN  IF override = Undef \/ override = "" THEN rule
        ELSE IF override \in {"error", "warning", "info"}
             THEN [rule EXCEPT !.severity = override]
             ELSE rule

\* applySeverityOverrides
ApplySeverityOverrides(rules, context, config) ==
    IF config = Null THEN rules
    ELSE IF context \notin DOMAIN config.severityOverrides THEN rules
    ELSE [i \in 1..Len(rules) |-> OverrideRule(rules[i], config.severityOverrides[context])]

OverlayDescription(context) ==
    IF context = "wordpress"
    THEN "wordpress rules (including workspace and community overlays)"
    ELSE "react rules (including workspace and community overlays)"

IdleAudit ==
    [pc |-> "idle", p |-> 0, i |-> 0, files |-> << >>, allResults |-> << >>,
     shown |-> << >>, audited |-> << >>, midFile |-> 0]

NotDetected == [called |-> FALSE, content |-> << >>, all |-> << >>]

IdleFix ==
    [pc |-> "idle", content |-> << >>, context |-> "unknown", updated |-> << >>,
     applied |-> << >>, edits |-> 0, message |-> "", seen |-> << >>, keystrokes |-> 0]

(***************************************************************************)
(* loadRules as a process: it runs without suspension from its call to the *)
(* first remote fetch and from the last fetch's answer to its return; it   *)
(* is suspended while it awaits the answer of a fetch.                     *)
(***************************************************************************)
IdleCall ==
    [pc |-> "idle", context |-> "unknown", base |-> Null, ws |-> << >>,
     config |-> Null, idx |-> 0, results |-> << >>, merged |-> << >>,
     ret |-> Null, log |-> << >>, io |-> 0, epoch |-> 0,
     hit |-> FALSE, first |-> FALSE, prior |-> Null, answer |-> "pending",
     caught |-> FALSE]

\* variant of FetchRemoteRuleSet: the status code is not looked at
FetchRemoteRuleSetAnyStatus(outcome) ==
    IF outcome.event = "error" THEN Null
    ELSE IF outcome.body.json THEN outcome.body.doc
    ELSE Null

\* fetchRemoteRuleSet: what the promise resolves to for an answer
FetchRemoteRuleSet(outcome) ==
    IF outcome.event = "error" THEN Null
    ELSE IF outcome.statusCode >= 400 THEN Null
    ELSE IF outcome.body.json THEN outcome.body.doc
    ELSE Null

\* variant of CollectRemote: every fetched document is kept
CollectRemoteAny(results, fetched, context, repoUrl) ==
    IF fetched # Null
    THEN Append(results, [fetched EXCEPT !.context = context] @@ [source |-> repoUrl])
    ELSE results

\* the body of the for loop of loadRemoteRuleSets for one URL
CollectRemote(results, fetched, context, repoUrl) ==
    IF fetched # Null /\ (fetched.context = context \/ fetched.context = Undef)
    THEN Append(results, [fetched EXCEPT !.context = context] @@ [source |-> repoUrl])
    ELSE results

\* loadRules, lines 156-179: merge, overrides, cache store and return
FinishBuild(c, rec) ==
    LET key      == GetCacheKey(rec.context)
        sources  == (IF rec.base = Null THEN << >> ELSE << rec.base >>)
                    \o rec.ws \o rec.results
        m        == MergeRuleSets(sources)
        rules    == ApplySeverityOverrides(m.val, rec.context, rec.config)
        ruleSet  == [context |-> rec.context,
                     description |-> IF rec.base # Null /\ rec.base.description # ""
                                     THEN rec.base.description
                                     ELSE OverlayDescription(rec.context),
                     rules |-> rules,
                     source |-> IF rec.base # Null THEN rec.base.source ELSE "merged"]
    IN  IF m.threw
        THEN /\ call' = [call EXCEPT ![c] = [rec EXCEPT !.pc = "done", !.ret = Null,
                                                         !.caught = TRUE]]
             /\ UNCHANGED <<rulesCache, builtAt, firstRet>>
        ELSE /\ call' = [call EXCEPT ![c] =
                            [rec EXCEPT !.pc = "done", !.ret = ruleSet, !.merged = m.val]]
             /\ rulesCache' = [k \in DOMAIN rulesCache \cup {key} |->
                                  IF k = key THEN ruleSet ELSE rulesCache[k]]
             /\ builtAt' = [k \in DOMAIN rulesCache \cup {key} |->
                               IF k = key
                               THEN [read |-> rec.epoch, stored |-> clears,
                                     partial |-> \E i \in 1..Len(rec.log) : rec.log[i].failed]
                               ELSE builtAt[k]]
             /\ firstRet' = IF key \in DOMAIN firstRet THEN firstRet
                            ELSE [k \in DOMAIN firstRet \cup {key} |->
                                     IF k = key THEN ruleSet ELSE firstRet[k]]

\* loadRules, lines 135-154: up to the first awaited fetch
StartLoad(c, context) ==
    /\ call[c].pc \in {"idle", "done"}
    /\ \A d \in Calls : d < c => call[d].pc = "fetching"
    /\ loads < MaxLoads
    /\ loads' = loads + 1
    /\ UNCHANGED <<root, ext, wsFile, cfgFile, clears>>
    /\ UNCHANGED auditVars
    /\ UNCHANGED editorVars
    /\ IF context = "unknown"
       THEN /\ call' = [call EXCEPT ![c] = [IdleCall EXCEPT !.pc = "done"]]
            /\ UNCHANGED <<rulesCache, builtAt, firstRet, calledSince>>
       ELSE LET key == GetCacheKey(context)
                cached == CachedRules(context)
                new == [IdleCall EXCEPT !.context = context, !.epoch = clears,
                            !.first = (clears > 0 /\ key \notin calledSince),
                            !.prior = IF key \in DOMAIN firstRet THEN firstRet[key] ELSE Null]
            IN  /\ calledSince' = calledSince \cup {key}
                /\ IF cached # Null
                   THEN /\ call' = [call EXCEPT ![c] =
                              [new EXCEPT !.pc = "done", !.hit = TRUE, !.ret = cached]]
                        /\ UNCHANGED <<rulesCache, builtAt, firstRet>>
                   ELSE LET b   == LoadBaseRuleSet(context)
                            w   == LoadWorkspaceRuleSets(context)
                            g   == LoadWorkspaceConfig
                            rec == [new EXCEPT !.base = b.val, !.ws = w.val,
                                        !.config = g.val, !.io = b.io + w.io + g.io]
                        IN  IF b.threw \/ w.threw \/ g.threw
                            THEN /\ call' = [call EXCEPT ![c] =
                                       [new EXCEPT !.pc = "done",
                                                   !.io = IF b.threw THEN b.io
                                                          ELSE IF w.threw THEN b.io + w.io
                                                          ELSE b.io + w.io + g.io,
                                                   !.caught = TRUE]]
                                 /\ UNCHANGED <<rulesCache, builtAt, firstRet>>
                            ELSE IF Repositories(g.val) = << >>
                            THEN FinishBuild(c, rec)
                            ELSE /\ call' = [call EXCEPT ![c] =
                                       [rec EXCEPT !.pc = "fetching", !.idx = 1]]
                                 /\ UNCHANGED <<rulesCache, builtAt, firstRet>>

\* the answer of the awaited fetch arrives: lines 280-291, and the rest of
\* loadRules when it was the last URL
FetchResolve(c) ==
    /\ call[c].pc = "fetching"
    /\ LET rec   == call[c]
           repos == Repositories(rec.config)
           url   == repos[rec.idx]
       IN  /\ rec.answer # "never"
           /\ \E outcome \in FetchOutcomes :
                LET fetched == FetchRemoteRuleSet(outcome)
                    next    == [rec EXCEPT
                                  !.results = CollectRemote(rec.results, fetched, rec.context, url),
                                  !.log = Append(rec.log, Answer(outcome)),
                                  !.io = rec.io + 1]
                IN  IF rec.idx < Len(repos)
                    THEN /\ call' = [call EXCEPT ![c] = [next EXCEPT !.idx = rec.idx + 1]]
                         /\ UNCHANGED <<rulesCache, builtAt, firstRet>>
                    ELSE FinishBuild(c, next)
    /\ UNCHANGED <<root, ext, wsFile, cfgFile, clears, loads, calledSince>>
    /\ UNCHANGED auditVars
    /\ UNCHANGED editorVars

\* https.get to a server that accepts the request and never answers: no
\* response, end or error event is ever delivered, and no timer is set
ServerStaysSilent(c) ==
    /\ call[c].pc = "fetching"
    /\ call[c].answer = "pending"
    /\ call' = [call EXCEPT ![c].answer = "never"]
    /\ UNCHANGED <<root, ext, wsFile, cfgFile, rulesCache, clears, loads,
                   builtAt, firstRet, calledSince>>
    /\ UNCHANGED auditVars
    /\ UNCHANGED editorVars

\* clearCache, called by the reloadRules command
ClearCache ==
    /\ clears < MaxClears
    /\ rulesCache' = [k \in {} |-> Null]
    /\ clears' = clears + 1
    /\ builtAt' = [k \in {} |-> 0]
    /\ firstRet' = [k \in {} |-> Null]
    /\ calledSince' = {}
    /\ UNCHANGED <<root, ext, wsFile, cfgFile, call, loads>>
    /\ UNCHANGED auditVars
    /\ UNCHANGED editorVars

InitWith(configs) ==
    /\ root \in {NoRoot, "/w"}
    /\ ext \in {"ok", "nofile", "corrupt", "nopath"}
    /\ wsFile \in { f \in [LoadContexts \ {"unknown"} -> UNION {WsFileContents(x) : x \in LoadContexts}] :
                       \A x \in DOMAIN f : f[x] \in WsFileContents(x) }
    /\ cfgFile \in configs
    /\ root = NoRoot => /\ \A x \in DOMAIN wsFile : wsFile[x].state = "absent"
                        /\ cfgFile.state = "absent"
    /\ rulesCache = [k \in {} |-> Null]
    /\ call = [c \in Calls |-> IdleCall]
    /\ clears = 0
    /\ loads = 0
    /\ builtAt = [k \in {} |-> 0]
    /\ firstRet = [k \in {} |-> Null]
    /\ calledSince = {}
    /\ tree = << >>
    /\ cancelRequested = FALSE
    /\ audit = IdleAudit
    /\ document = << >>
    /\ fix = IdleFix
    /\ contexts = NotDetected

\* overlapping invocations; a configuration with a feed comes with bundled
\* rules and both workspace override files
Init ==
    /\ InitWith(CfgFileContents \ {CfgTwoFeeds})
    /\ cfgFile = CfgOneFeed =>
          /\ ext # "nofile"
          /\ \A x \in DOMAIN wsFile : wsFile[x].state # "absent"

Next ==
    \/ \E c \in Calls, context \in LoadContexts : StartLoad(c, context)
    \/ \E c \in Calls : FetchResolve(c)
    \/ \E c \in Calls : ServerStaysSilent(c)
    \/ ClearCache

Spec == Init /\ [][Next]_vars

\* one invocation at a time, all configurations
BuildInit == InitWith(CfgFileContents)

BuildNext ==
    \/ \E context \in LoadContexts : loads < MaxBuildLoads /\ StartLoad(1, context)
    \/ FetchResolve(1)
    \/ ServerStaysSilent(1)
    \/ ClearCache

BuildSpec == BuildInit /\ [][BuildNext]_vars

(***************************************************************************)
(* Pattern matching.  A text is a sequence of characters; "E", "W", "R"    *)
(* and "C" each stand for a snippet that a signature pattern of elementor, *)
(* wordpress, react and woocommerce matches.  The rule patterns of the     *)
(* model are literals, the empty pattern, and "(", which is no regular     *)
(* expression.                                                             *)
(***************************************************************************)
Signatures ==
    << [context |-> "elementor", patterns |-> << "E" >>],
       [context |-> "wordpress", patterns |-> << "W" >>],
       [context |-> "react", patterns |-> << "R" >>],
       [context |-> "woocommerce", patterns |-> << "C" >>] >>

\* the "i" flag: a character and its other case match each other
FoldCase(ch) ==
    CASE ch = "e" -> "E" [] ch = "w" -> "W" [] ch = "r" -> "R" [] ch = "c" -> "C"
      [] OTHER -> ch

\* new RegExp(pattern, "i").test(content) for some pattern of the signature
SignatureMatches(signature, content) ==
    \E n \in 1..Len(signature.patterns) : \E k \in 1..Len(content) :
        FoldCase(content[k]) = FoldCase(signature.patterns[n])

\* variant of DetectContext: the last matching signature, not the first
DetectContextLast(content) ==
    LET hits == { n \in 1..Len(Signatures) : SignatureMatches(Signatures[n], content) }
    IN  IF hits = {} THEN "unknown"
        ELSE Signatures[CHOOSE n \in hits : \A m \in hits : m <= n].context

\* detectContext
DetectContext(content) ==
    LET hits == { n \in 1..Len(Signatures) : SignatureMatches(Signatures[n], content) }
    IN  IF hits = {} THEN "unknown"
        ELSE Signatures[CHOOSE n \in hits : \A m \in hits : n <= m].context

\* variant of DetectAllContexts: the search ends at the first signature found
DetectAllContextsFirstOnly(content) ==
    IF DetectContext(content) = "unknown" THEN << >> ELSE << DetectContext(content) >>

\* detectAllContexts: a Set filled in signature order, as an array
DetectAllContexts(content) ==
    LET hits == SelectSeq([n \in 1..Len(Signatures) |-> n],
                          LAMBDA n : SignatureMatches(Signatures[n], content))
    IN  [k \in 1..Len(hits) |-> Signatures[hits[k]].context]

Literal(pattern) ==
    CASE pattern = "a" -> << "a" >>
      [] pattern = "b" -> << "b" >>
      [] pattern = "ab" -> << "a", "b" >>
      [] pattern = "aa" -> << "a", "a" >>
      [] OTHER -> << >>

\* new RegExp(pattern, "gm"): a SyntaxError for what is no regular expression
NewRegExp(pattern) ==
    IF pattern = "(" THEN [threw |-> TRUE, lit |-> << >>]
    ELSE [threw |-> FALSE, lit |-> Literal(pattern)]

MatchesAt(content, lit, index) ==
    /\ index + Len(lit) <= Len(content)
    /\ \A k \in 1..Len(lit) : content[index + k] = lit[k]

\* regex.exec(content) of a global regex whose lastIndex is lastIndex
Exec(content, lit, lastIndex) ==
    LET at == { i \in lastIndex..Len(content) : MatchesAt(content, lit, i) }
    IN  IF at = {} THEN [found |-> FALSE, index |-> 0, lastIndex |-> 0]
        ELSE LET index == CHOOSE i \in at : \A j \in at : i <= j
             IN  [found |-> TRUE, index |-> index, lastIndex |-> index + Len(lit)]

\* variant of GetPositionFromIndex: the column is counted from 0
GetPositionFromIndexZeroBased(content, index) ==
    LET newlines == { k \in 1..index : content[k] = "\n" }
        lineStart == IF newlines = {} THEN 0
                     ELSE CHOOSE k \in newlines : \A j \in newlines : j <= k
    IN  [line |-> Cardinality(newlines) + 1, column |-> index - lineStart]

\* getPositionFromIndex
GetPositionFromIndex(content, index) ==
    LET newlines == { k \in 1..index : content[k] = "\n" }
        lineStart == IF newlines = {} THEN 0
                     ELSE CHOOSE k \in newlines : \A j \in newlines : j <= k
    IN  [line |-> Cardinality(newlines) + 1, column |-> index - lineStart + 1]

\* variant of Advance: no guard for a match of zero length
AdvanceUnguarded(match) == match.lastIndex

\* lines 425-428: regex.lastIndex when the loop calls exec again
Advance(match) ==
    IF match.index = match.lastIndex THEN match.lastIndex + 1 ELSE match.lastIndex

\* auditFile, lines 413-429: the exec loop of one rule
RECURSIVE ScanRule(_, _, _, _)
ScanRule(content, rule, lit, lastIndex) ==
    LET match == Exec(content, lit, lastIndex)
        position == GetPositionFromIndex(content, match.index)
    IN  IF ~match.found THEN << >>
        ELSE << [line |-> position.line, column |-> position.column, rule |-> rule,
                 matched |-> lit, suggestion |-> rule.suggestion, fix |-> rule.fix] >>
             \o ScanRule(content, rule, lit, Advance(match))

\* variant of AuditRule: a mustExist rule is scanned like any other rule
AuditRuleIgnoresMustExist(content, rule) ==
    LET regex == NewRegExp(rule.pattern)
    IN  IF regex.threw THEN [threw |-> TRUE, issues |-> << >>]
        ELSE [threw |-> FALSE, issues |-> ScanRule(content, rule, regex.lit, 0)]

\* auditFile, lines 395-429: the issues of one rule, or the SyntaxError of
\* new RegExp
AuditRule(content, rule) ==
    LET regex == NewRegExp(rule.pattern)
    IN  IF regex.threw THEN [threw |-> TRUE, issues |-> << >>]
        ELSE IF rule.mustExist
        THEN [threw |-> FALSE,
              issues |-> IF Exec(content, regex.lit, 0).found THEN << >>
                         ELSE << [line |-> 1, column |-> 1, rule |-> rule,
                                  matched |-> << "(missing)" >>,
                                  suggestion |-> rule.suggestion, fix |-> rule.fix] >>]
        ELSE [threw |-> FALSE, issues |-> ScanRule(content, rule, regex.lit, 0)]

\* variant of AuditRules: the issues of a rule are put before those found so far
RECURSIVE AuditRulesPrepending(_, _)
AuditRulesPrepending(content, rules) ==
    IF rules = << >> THEN [threw |-> FALSE, issues |-> << >>]
    ELSE LET first == AuditRule(content, Head(rules))
             rest == AuditRulesPrepending(content, Tail(rules))
         IN  IF first.threw \/ rest.threw THEN [threw |-> TRUE, issues |-> << >>]
             ELSE [threw |-> FALSE, issues |-> rest.issues \o first.issues]

\* auditFile, lines 394-430: the loop over the rules; an exception leaves it
RECURSIVE AuditRules(_, _)
AuditRules(content, rules) ==
    IF rules = << >> THEN [threw |-> FALSE, issues |-> << >>]
    ELSE LET first == AuditRule(content, Head(rules))
             rest == AuditRules(content, Tail(rules))
         IN  IF first.threw \/ rest.threw THEN [threw |-> TRUE, issues |-> << >>]
             ELSE [threw |-> FALSE, issues |-> first.issues \o rest.issues]

\* ContextManager.auditFile for a text whose rule set loadRules returns as
\* ruleSet (Null when it has none)
AuditFile(content, ruleSet) ==
    LET context == DetectContext(content)
    IN  IF context = "unknown" \/ ruleSet = Null
        THEN [threw |-> FALSE, context |-> context, issues |-> << >>]
        ELSE AuditRules(content, ruleSet.rules) @@ [context |-> context]

(***************************************************************************)
(* The auditWorkspace command.  The rule sets of the categories are in the *)
(* cache, so that loadRules returns them at once.                          *)
(***************************************************************************)
MaxFiles == 2

Patterns == << "php", "tsx", "jsx", "ts", "js" >>

AuditRuleSets ==
    { [context |-> "wordpress", description |-> "d", source |-> "extension", rules |-> r] :
        r \in { << Rule("r-a", "a", "m1", "error", Undef),
                   Rule("r-b", "b", "m2", "warning", "s") >>,
                << Rule("r-a", "a", "m1", "error", Undef),
                   Rule("r-bad", "(", "m3", "error", Undef),
                   Rule("r-b", "b", "m2", "warning", "s") >>,
                << [Rule("r-must", "(", "m4", "info", Undef) EXCEPT !.mustExist = TRUE],
                   Rule("r-ab", "ab", "m5", "info", Undef) >>,
                << [Rule("r-need-ab", "ab", "m6", "error", "s") EXCEPT !.mustExist = TRUE],
                   Rule("r-a", "a", "m1", "warning", Undef),
                   [Rule("r-need-a", "a", "m7", "info", Undef) EXCEPT !.mustExist = TRUE] >>,
                << Rule("r-empty", "", "m8", "info", Undef),
                   Rule("r-aa", "aa", "m5", "error", Undef),
                   Rule("r-a", "a", "m1", "warning", "s") >> } }

AuditContents ==
    { << "W", "a" >>, << "W", "\n", "a", "a", "a" >>, << "R", "b", "a", "b" >>, << "a", "b" >> }

WorkspaceFiles == [ext : {"php", "js"}, content : AuditContents]

\* vscode.workspace.findFiles(pattern)
FindFiles(pattern) == SelectSeq(tree, LAMBDA f : f.ext = pattern)

loaderVars == <<root, ext, wsFile, cfgFile, rulesCache, call,
                clears, loads, builtAt, firstRet, calledSince>>

\* auditWorkspace, lines 77-98
AuditWorkspace ==
    /\ audit.pc = "idle"
    /\ root # NoRoot
    /\ audit' = [audit EXCEPT !.pc = "patterns", !.p = 1]
    /\ UNCHANGED <<tree, cancelRequested>>
    /\ UNCHANGED loaderVars
    /\ UNCHANGED editorVars

\* lines 99-109 and 135-136: the head of the loop over the patterns, and the
\* display of the results after it
NextPattern ==
    /\ audit.pc = "patterns"
    /\ IF audit.p > Len(Patterns) \/ cancelRequested
       THEN audit' = [audit EXCEPT !.pc = "displayed", !.shown = audit.allResults]
       ELSE audit' = [audit EXCEPT !.pc = "files", !.i = 1,
                                   !.files = FindFiles(Patterns[audit.p])]
    /\ UNCHANGED <<tree, cancelRequested>>
    /\ UNCHANGED loaderVars
    /\ UNCHANGED editorVars

\* variant of NextFile: the token is not looked at in the loop over the files
NextFileUnchecked ==
    /\ audit.pc = "files"
    /\ IF audit.i > Len(audit.files)
       THEN audit' = [audit EXCEPT !.pc = "patterns", !.p = audit.p + 1]
       ELSE audit' = [audit EXCEPT !.pc = "auditing"]
    /\ UNCHANGED <<tree, cancelRequested>>
    /\ UNCHANGED loaderVars
    /\ UNCHANGED editorVars

\* lines 111-114: the head of the loop over the files of a pattern
NextFile ==
    /\ audit.pc = "files"
    /\ IF audit.i > Len(audit.files) \/ cancelRequested
       THEN audit' = [audit EXCEPT !.pc = "patterns", !.p = audit.p + 1]
       ELSE audit' = [audit EXCEPT !.pc = "auditing"]
    /\ UNCHANGED <<tree, cancelRequested>>
    /\ UNCHANGED loaderVars
    /\ UNCHANGED editorVars

\* lines 116-131: the document is opened and audited, and its result kept
\* when it has issues
FileAudited ==
    /\ audit.pc = "auditing"
    /\ LET content == audit.files[audit.i].content
           result == AuditFile(content, CachedRules(DetectContext(content)))
       IN  IF result.threw
           THEN audit' = [audit EXCEPT !.pc = "rejected"]
           ELSE audit' = [audit EXCEPT
                   !.pc = "files",
                   !.i = audit.i + 1,
                   !.audited = Append(audit.audited, [content |-> content, result |-> result]),
                   !.allResults = IF Len(result.issues) > 0
                                  THEN Append(audit.allResults, [content |-> content, result |-> result])
                                  ELSE audit.allResults]
    /\ UNCHANGED <<tree, cancelRequested>>
    /\ UNCHANGED loaderVars
    /\ UNCHANGED editorVars

\* the user cancels the progress notification
RequestCancel ==
    /\ audit.pc \in {"patterns", "files", "auditing"}
    /\ ~cancelRequested
    /\ cancelRequested' = TRUE
    /\ audit' = [audit EXCEPT !.midFile = IF audit.pc = "auditing"
                                          THEN Len(audit.audited) + 1 ELSE 0]
    /\ UNCHANGED tree
    /\ UNCHANGED loaderVars
    /\ UNCHANGED editorVars

AuditInit ==
    /\ root = "/w"
    /\ ext = "ok"
    /\ wsFile = [x \in LoadContexts \ {"unknown"} |-> [state |-> "absent"]]
    /\ cfgFile = [state |-> "absent"]
    /\ \E w \in AuditRuleSets :
         rulesCache = (<< "/w", "wordpress" >> :> w) @@
                      (<< "/w", "react" >> :> [w EXCEPT !.context = "react"])
    /\ call = [c \in Calls |-> IdleCall]
    /\ clears = 0
    /\ loads = 0
    /\ builtAt = [k \in DOMAIN rulesCache |-> [read |-> 0, stored |-> 0, partial |-> FALSE]]
    /\ firstRet = rulesCache
    /\ calledSince = DOMAIN rulesCache
    /\ tree \in UNION { [1..n -> WorkspaceFiles] : n \in 0..MaxFiles }
    /\ cancelRequested = FALSE
    /\ audit = IdleAudit
    /\ document = << >>
    /\ fix = IdleFix
    /\ contexts = NotDetected

AuditNext ==
    \/ AuditWorkspace
    \/ NextPattern
    \/ NextFile
    \/ FileAudited
    \/ RequestCancel

AuditSpec == AuditInit /\ [][AuditNext]_vars

(***************************************************************************)
(* The applyAutoFixes command on the active editor's document.  The rule   *)
(* sets of the categories are in the cache.                                *)
(***************************************************************************)
MaxDocLen == 3

\* the number of changes the user makes to the document while the command
\* waits for loadRules
MaxKeystrokes == 1

\* what the user types
TypedChars == {"a"}

DocChars == {"E", "W", "w", "R", "C", "a", "b"}

FixRule(id, message, fixOf) ==
    [Rule(id, "a", message, "warning", Undef) EXCEPT !.fix = fixOf]

FixRuleSets ==
    { [context |-> "wordpress", description |-> "d", source |-> "extension", rules |-> r] :
        r \in { << FixRule("fx-a", "m1", Fix("a", << "b" >>, Undef)),
                   FixRule(Undef, "m2", Fix("b", << >>, "g")) >>,
                << FixRule("fx-first", "m3", Fix("a", << "b", "b" >>, "m")),
                   FixRule("", "m4", Fix("aa", << "a" >>, "")) >>,
                << FixRule("fx-none", "m5", NoFix) >>,
                << FixRule("fx-ab", "m6", Fix("ab", << "a" >>, "gm")),
                   FixRule("fx-bad", "m7", Fix("(", << "b" >>, Undef)),
                   FixRule("fx-b", "m8", Fix("b", << "b" >>, Undef)) >>,
                << FixRule("fx-aa", "m9", Fix("aa", << "b" >>, "g")),
                   FixRule("fx-a2", "m10", Fix("a", << "w" >>, Undef)),
                   FixRule("fx-b2", "m11", Fix("b", << "a" >>, "g")) >> } }

\* replacement.flags || "gm", and whether the regex is global
Flags(replacement) ==
    IF replacement.flags = Undef \/ replacement.flags = "" THEN "gm"
    ELSE replacement.flags

IsGlobal(flags) == flags \in {"g", "gm"}

\* String.prototype.replace(regex, replacement) from an offset on: every
\* match of a global regex, the first match of any other
RECURSIVE ReplaceFrom(_, _, _, _, _)
ReplaceFrom(content, lit, replacement, from, global) ==
    LET match == Exec(content, lit, from)
    IN  IF ~match.found THEN SubSeq(content, from + 1, Len(content))
        ELSE SubSeq(content, from + 1, match.index) \o replacement \o
             (IF ~global THEN SubSeq(content, match.lastIndex + 1, Len(content))
              ELSE IF match.lastIndex > match.index
              THEN ReplaceFrom(content, lit, replacement, match.lastIndex, global)
              ELSE IF match.index < Len(content)
              THEN << content[match.index + 1] >>
                   \o ReplaceFrom(content, lit, replacement, match.index + 1, global)
              ELSE << >>)

\* variant of ApplyFix: the replace is done without testing the pattern first
ApplyFixUntested(acc, rule) ==
    LET regex == NewRegExp(rule.fix.pattern)
    IN  IF acc.threw \/ regex.threw THEN [acc EXCEPT !.threw = TRUE]
        ELSE [acc EXCEPT
                !.content = ReplaceFrom(acc.content, regex.lit, rule.fix.replacement, 0,
                                        IsGlobal(Flags(rule.fix))),
                !.applied = Append(acc.applied,
                                   IF rule.id # "" /\ rule.id # Undef THEN rule.id
                                   ELSE rule.message)]

\* applyAutoFixes, lines 184-193: one turn of the loop over the fixable rules
ApplyFix(acc, rule) ==
    LET regex == NewRegExp(rule.fix.pattern)
    IN  IF acc.threw \/ regex.threw THEN [acc EXCEPT !.threw = TRUE]
        ELSE IF ~Exec(acc.content, regex.lit, 0).found THEN acc
        ELSE [acc EXCEPT
                !.content = ReplaceFrom(acc.content, regex.lit, rule.fix.replacement, 0,
                                        IsGlobal(Flags(rule.fix))),
                !.applied = Append(acc.applied,
                                   IF rule.id # "" /\ rule.id # Undef THEN rule.id
                                   ELSE rule.message)]

\* variant of ApplyFixes: the rules take their turns from the last to the first
RECURSIVE ApplyFixesBackwards(_, _)
ApplyFixesBackwards(acc, rules) ==
    IF rules = << >> THEN acc
    ELSE ApplyFix(ApplyFixesBackwards(acc, Tail(rules)), Head(rules))

\* lines 180-194: the loop
RECURSIVE ApplyFixes(_, _)
ApplyFixes(acc, rules) ==
    IF rules = << >> THEN acc
    ELSE ApplyFixes(ApplyFix(acc, Head(rules)), Tail(rules))

\* ruleSet.rules.filter((rule) => rule.fix?.replace)
FixableRules(rules) == SelectSeq(rules, LAMBDA rule : rule.fix.replace)

\* applyAutoFixes, lines 143-166: up to the wait for loadRules
ApplyAutoFixes ==
    /\ fix.pc = "idle"
    /\ LET context == DetectContext(document)
       IN  fix' = [fix EXCEPT !.content = document, !.context = context,
                              !.pc = IF context = "unknown" THEN "done" ELSE "loading",
                              !.message = IF context = "unknown" THEN "no context" ELSE ""]
    /\ UNCHANGED <<document, contexts>>
    /\ UNCHANGED loaderVars
    /\ UNCHANGED auditVars

\* variant of Edit: the edit is made without comparing the computed content
\* with the content read
EditUnchecked(text, content, updatedContent) ==
    [made |-> TRUE,
     text |-> updatedContent \o SubSeq(text, Len(content) + 1, Len(text))]

\* lines 196-207: the edit of the document, whose text is now `text`.  The
\* range from positionAt(0) to positionAt(content.length) is the first
\* content.length characters of the text, or all of it when it is shorter.
Edit(text, content, updatedContent) ==
    IF updatedContent = content THEN [made |-> FALSE, text |-> text]
    ELSE [made |-> TRUE,
          text |-> updatedContent \o SubSeq(text, Len(content) + 1, Len(text))]

\* lines 167-211: loadRules has returned
FixWithRules ==
    /\ fix.pc = "loading"
    /\ LET ruleSet == CachedRules(fix.context)
           fixableRules == FixableRules(ruleSet.rules)
           result == ApplyFixes([threw |-> FALSE, content |-> fix.content, applied |-> << >>],
                                fixableRules)
           edit == Edit(document, fix.content, result.content)
       IN  IF ruleSet = Null
           THEN /\ fix' = [fix EXCEPT !.pc = "done", !.message = "no rules",
                                      !.seen = document]
                /\ UNCHANGED document
           ELSE IF fixableRules = << >>
           THEN /\ fix' = [fix EXCEPT !.pc = "done", !.message = "no suggestions",
                                      !.seen = document]
                /\ UNCHANGED document
           ELSE IF result.threw
           THEN /\ fix' = [fix EXCEPT !.pc = "rejected", !.seen = document]
                /\ UNCHANGED document
           ELSE /\ fix' = [fix EXCEPT !.pc = "done",
                                      !.message = IF edit.made THEN "applied"
                                                  ELSE "no matching issues",
                                      !.updated = result.content, !.applied = result.applied,
                                      !.edits = fix.edits + (IF edit.made THEN 1 ELSE 0),
                                      !.seen = document]
                /\ document' = edit.text
    /\ UNCHANGED contexts
    /\ UNCHANGED loaderVars
    /\ UNCHANGED auditVars

\* the user changes the document while the command waits at line 166: a
\* character is typed at the end of the text, or the last one is deleted
UserTypes ==
    /\ fix.pc = "loading"
    /\ fix.keystrokes < MaxKeystrokes
    /\ \/ \E c \in TypedChars : document' = Append(document, c)
       \/ /\ document # << >>
          /\ document' = SubSeq(document, 1, Len(document) - 1)
    /\ fix' = [fix EXCEPT !.keystrokes = fix.keystrokes + 1]
    /\ UNCHANGED contexts
    /\ UNCHANGED loaderVars
    /\ UNCHANGED auditVars

\* a caller asks for all the categories of the text the editor shows, before
\* the command is run
DetectAll ==
    /\ ~contexts.called
    /\ fix.pc = "idle"
    /\ contexts' = [called |-> TRUE, content |-> document,
                    all |-> DetectAllContexts(document)]
    /\ UNCHANGED <<document, fix>>
    /\ UNCHANGED loaderVars
    /\ UNCHANGED auditVars

EditorInit ==
    /\ root = "/w"
    /\ ext = "ok"
    /\ wsFile = [x \in LoadContexts \ {"unknown"} |-> [state |-> "absent"]]
    /\ cfgFile = [state |-> "absent"]
    /\ \E w \in FixRuleSets :
         rulesCache = [k \in { << "/w", x >> : x \in {"wordpress", "react", "woocommerce"} } |->
                          [w EXCEPT !.context = k[2]]]
    /\ call = [c \in Calls |-> IdleCall]
    /\ clears = 0
    /\ loads = 0
    /\ builtAt = [k \in DOMAIN rulesCache |-> [read |-> 0, stored |-> 0, partial |-> FALSE]]
    /\ firstRet = rulesCache
    /\ calledSince = DOMAIN rulesCache
    /\ tree = << >>
    /\ cancelRequested = FALSE
    /\ audit = IdleAudit
    /\ document \in UNION { [1..n -> DocChars] : n \in 0..MaxDocLen }
    /\ fix = IdleFix
    /\ contexts = NotDetected

EditorNext ==
    \/ ApplyAutoFixes
    \/ FixWithRules
    \/ UserTypes
    \/ DetectAll

EditorSpec == EditorInit /\ [][EditorNext]_vars

(***************************************************************************)
(* Properties.                                                             *)
(***************************************************************************)
\* a loadRules invocation that has built a rule set and returned it
Built(c) == call[c].pc = "done" /\ ~call[c].hit /\ call[c].ret # Null

\* the rule sets the invocation loaded, in load order: bundled, workspace
\* override, remote feeds in the order of the configured URLs
SourcesOf(rec) ==
    (IF rec.base = Null THEN << >> ELSE << rec.base >>) \o rec.ws \o rec.results

Has(set, k) == \E i \in 1..Len(set.rules) : Ident(set.rules[i]) = k
IdentsOf(sets) ==
    UNION { { Ident(sets[n].rules[i]) : i \in 1..Len(sets[n].rules) } : n \in 1..Len(sets) }
LastIndex(S) == CHOOSE i \in S : \A j \in S : j <= i
\* the rule of identity k in the last of the sets that has one
LastRuleOf(sets, k) ==
    LET set == sets[LastIndex({ n \in 1..Len(sets) : Has(sets[n], k) })]
    IN  set.rules[LastIndex({ i \in 1..Len(set.rules) : Ident(set.rules[i]) = k })]

\* C1: for every rule identity that occurs in more than one loaded source, the
\* merged list (before severity overrides) holds exactly one rule of that
\* identity, and it is the rule of the last source in load order, field by
\* field.
C1_LaterSourceWins ==
    \A c \in Calls : Built(c) =>
        LET sets == SourcesOf(call[c])
            merged == call[c].merged
        IN  \A k \in IdentsOf(sets) :
              Cardinality({ n \in 1..Len(sets) : Has(sets[n], k) }) > 1 =>
                /\ Cardinality({ i \in 1..Len(merged) : Ident(merged[i]) = k }) = 1
                /\ \A i \in 1..Len(merged) :
                     Ident(merged[i]) = k => merged[i] = LastRuleOf(sets, k)

\* an identity of the bundled rules is overridden by the workspace file and by
\* both feeds, and the build has returned
C1_Witness ==
    \E c \in Calls :
        /\ Built(c)
        /\ call[c].base # Null /\ Len(call[c].ws) = 1 /\ Len(call[c].results) = 2
        /\ \A n \in 1..4 : Has(SourcesOf(call[c])[n], "no-eval")

\* the severity the claim gives a rule: the entry of its identity under the
\* requested category when that entry is error, warning or info
ExpectedSeverity(rule, context, config) ==
    IF /\ config # Null
       /\ context \in DOMAIN config.severityOverrides
       /\ Ident(rule) \in DOMAIN config.severityOverrides[context]
       /\ config.severityOverrides[context][Ident(rule)] \in Severities
    THEN config.severityOverrides[context][Ident(rule)]
    ELSE rule.severity

\* C2: the rules returned are the merged rules, in the same order, each
\* unchanged but for its severity, which is the valid override entry of its
\* identity under the requested category, and the original severity otherwise.
C2_SeverityOverrides ==
    \A c \in Calls : Built(c) =>
        LET merged == call[c].merged
            rules == call[c].ret.rules
        IN  /\ Len(rules) = Len(merged)
            /\ \A i \in 1..Len(merged) :
                 rules[i] = [merged[i] EXCEPT
                     !.severity = ExpectedSeverity(merged[i], call[c].context, call[c].config)]

\* one rule's severity is replaced and another rule keeps its severity in
\* spite of an entry that is no severity
C2_Witness ==
    \E c \in Calls :
        /\ Built(c) /\ call[c].config # Null
        /\ call[c].context \in DOMAIN call[c].config.severityOverrides
        /\ LET ov == call[c].config.severityOverrides[call[c].context]
               merged == call[c].merged
           IN  /\ \E i \in 1..Len(merged) :
                    call[c].ret.rules[i].severity # merged[i].severity
               /\ \E i \in 1..Len(merged) : Lookup(ov, Ident(merged[i])) = "critical"

\* C3: no rule set in the rules cache holds two rules of the same identity.
C3_UniqueIdentities ==
    \A key \in DOMAIN rulesCache :
        \A i, j \in 1..Len(rulesCache[key].rules) :
            Ident(rulesCache[key].rules[i]) = Ident(rulesCache[key].rules[j]) => i = j

\* the cache holds a rule set merged from sources that share an identity
C3_Witness ==
    \E key \in DOMAIN rulesCache :
        /\ \E i \in 1..Len(rulesCache[key].rules) : rulesCache[key].rules[i].message = "w1"
        /\ \E i \in 1..Len(rulesCache[key].rules) : rulesCache[key].rules[i].message = "b2"

\* C4: once loadRules has returned a rule set for a key, and until the next
\* clearCache, a loadRules call for that key returns a rule set with the same
\* contents and does no file access and no fetch.
C4_RepeatedLoadIdentical ==
    \A c \in Calls :
        call[c].pc = "done" /\ call[c].prior # Null =>
            call[c].ret = call[c].prior /\ call[c].io = 0

\* C5: clearCache leaves no entry stored before it, and the first loadRules
\* call for a key after it builds the rule set from the sources.
C5_ClearThenRebuild ==
    /\ \A key \in DOMAIN rulesCache : builtAt[key].stored = clears
    /\ \A c \in Calls : call[c].first => ~call[c].hit

\* C6: when no build is in flight, the cache holds no rule set whose sources
\* were read before the last clearCache.
C6_NoStaleEntry ==
    (\A c \in Calls : call[c].pc # "fetching") =>
        \A key \in DOMAIN rulesCache : builtAt[key].read = clears

\* the documents the log of a build says were delivered well-formed
Delivered(rec, i) == ~rec.log[i].failed /\ rec.log[i].doc.shape = "ruleset"
Included(rec, i) ==
    \E j \in 1..Len(rec.results) :
        /\ rec.results[j].source = Repositories(rec.config)[i]
        /\ rec.results[j].context = rec.context
        /\ rec.results[j].rules = rec.log[i].doc.rules

Fetched(c) ==
    call[c].pc = "done" /\ ~call[c].hit /\ Repositories(call[c].config) # << >>

\* C8: a failed URL contributes no rule set, every configured URL is still
\* fetched, and when the other documents are rule sets the build returns a
\* rule set holding every identity of the bundled and workspace rules.
C8_FailedFeedSkipped ==
    \A c \in Calls :
        LET rec == call[c]
            repos == Repositories(rec.config)
        IN  /\ rec.pc = "fetching" => Len(rec.log) = rec.idx - 1
            /\ Fetched(c) =>
                 /\ Len(rec.log) = Len(repos)
                 /\ \A i \in 1..Len(rec.log) : rec.log[i].failed =>
                      \A j \in 1..Len(rec.results) : rec.results[j].source # repos[i]
                 /\ (\A i \in 1..Len(rec.log) : rec.log[i].failed \/ Delivered(rec, i)) =>
                      /\ rec.ret # Null
                      /\ IdentsOf((IF rec.base = Null THEN << >> ELSE << rec.base >>) \o rec.ws)
                           \subseteq { Ident(rec.ret.rules[i]) : i \in 1..Len(rec.ret.rules) }

\* the first of two URLs failed, the second delivered a rule set, and the
\* build returned bundled and workspace rules with it
C8_Witness ==
    \E c \in Calls :
        /\ Fetched(c) /\ Len(call[c].log) = 2
        /\ call[c].log[1].failed /\ Delivered(call[c], 2)
        /\ call[c].base # Null /\ Len(call[c].ws) = 1 /\ Len(call[c].results) = 1
        /\ call[c].ret # Null

\* C9: a loadRules invocation that waits for a feed can always go on, by an
\* answer or by the end of a bounded wait.
C9_FetchIsBounded ==
    \A c \in Calls : call[c].pc = "fetching" => ENABLED FetchResolve(c)

\* the rules of a rule set whose pattern is a regular expression
ValidRules(rules) == SelectSeq(rules, LAMBDA r : ~NewRegExp(r.pattern).threw)

\* C10: a rule whose pattern is no regular expression is skipped: the audit of
\* a file returns the issues of the other rules, and a workspace audit goes on
\* to the remaining files and displays the results.
C10_InvalidPatternSkipped ==
    /\ audit.pc # "rejected"
    /\ \A n \in 1..Len(audit.audited) :
         LET content == audit.audited[n].content
             ruleSet == CachedRules(DetectContext(content))
         IN  ruleSet # Null =>
               audit.audited[n].result.issues = AuditRules(content, ValidRules(ruleSet.rules)).issues
    /\ audit.pc = "displayed" /\ ~cancelRequested => Len(audit.audited) = Len(tree)

\* the audits of the workspace audit that returned a result for a text whose
\* category has rules
Audits == { n \in 1..Len(audit.audited) :
              CachedRules(DetectContext(audit.audited[n].content)) # Null }
RulesOf(n) == CachedRules(DetectContext(audit.audited[n].content)).rules
\* the issues of audit n that carry the rule
IssuesOf(n, rule) == SelectSeq(audit.audited[n].result.issues, LAMBDA x : x.rule = rule)
\* the offsets of the content where the text occurs
Offsets(content, text) ==
    { i \in 0..Len(content) :
        /\ i + Len(text) <= Len(content)
        /\ SubSeq(content, i + 1, i + Len(text)) = text }

\* C11: a mustExist rule yields exactly one issue, at line 1, column 1 with
\* matched text "(missing)", when its pattern occurs nowhere in the content,
\* and no issue when it occurs somewhere.
C11_MustExist ==
    \A n \in Audits : \A r \in 1..Len(RulesOf(n)) :
        LET rule == RulesOf(n)[r]
            mine == IssuesOf(n, rule)
        IN  rule.mustExist =>
              IF Offsets(audit.audited[n].content, Literal(rule.pattern)) = {}
              THEN /\ Len(mine) = 1
                   /\ mine[1].line = 1 /\ mine[1].column = 1
                   /\ mine[1].matched = << "(missing)" >>
              ELSE mine = << >>

\* one audit met a mustExist rule whose pattern is missing and one whose
\* pattern is present
C11_Witness ==
    \E n \in Audits : \E r1, r2 \in 1..Len(RulesOf(n)) :
        /\ RulesOf(n)[r1].mustExist /\ RulesOf(n)[r2].mustExist
        /\ Len(IssuesOf(n, RulesOf(n)[r1])) = 1
        /\ Offsets(audit.audited[n].content, Literal(RulesOf(n)[r2].pattern)) # {}

\* the match offsets of a left-to-right global scan for the text from an
\* offset on: the leftmost occurrence, then the scan after its end
RECURSIVE GlobalScan(_, _, _)
GlobalScan(content, text, from) ==
    LET at == { i \in Offsets(content, text) : i >= from }
    IN  IF at = {} THEN << >>
        ELSE LET i == CHOOSE i \in at : \A j \in at : i <= j
             IN  << i >> \o GlobalScan(content, text, IF text = << >> THEN i + 1 ELSE i + Len(text))

NewlinesBefore(content, offset) == { k \in 1..offset : content[k] = "\n" }

\* C12: a rule without mustExist yields one issue per match of a left-to-right
\* global scan, in scan order, with the match as matched text, the line 1 plus
\* the number of newlines before the offset, the column 1 plus the number of
\* characters since the last newline (or the start), and the rule as loaded.
C12_IssuePerMatch ==
    \A n \in Audits : \A r \in 1..Len(RulesOf(n)) :
        LET rule == RulesOf(n)[r]
            content == audit.audited[n].content
            mine == IssuesOf(n, rule)
            scan == GlobalScan(content, Literal(rule.pattern), 0)
        IN  ~rule.mustExist =>
              /\ Len(mine) = Len(scan)
              /\ \A k \in 1..Len(scan) :
                   LET before == NewlinesBefore(content, scan[k])
                   IN  /\ mine[k].matched = Literal(rule.pattern)
                       /\ mine[k].line = 1 + Cardinality(before)
                       /\ mine[k].column =
                            1 + Cardinality({ j \in 1..scan[k] : \A b \in before : j > b })
                       /\ mine[k].rule.severity = rule.severity
                       /\ mine[k].suggestion = rule.suggestion

\* an audit found a pattern that overlaps itself once on the second line,
\* and another pattern three times there
C12_Witness ==
    \E n \in Audits : \E r1, r2 \in 1..Len(RulesOf(n)) :
        /\ ~RulesOf(n)[r1].mustExist /\ ~RulesOf(n)[r2].mustExist
        /\ Len(IssuesOf(n, RulesOf(n)[r1])) = 1
        /\ IssuesOf(n, RulesOf(n)[r1])[1].matched = << "a", "a" >>
        /\ Len(IssuesOf(n, RulesOf(n)[r2])) = 3
        /\ IssuesOf(n, RulesOf(n)[r2])[3].line = 2
        /\ IssuesOf(n, RulesOf(n)[r2])[3].column = 3

SignatureOrder == << "elementor", "wordpress", "react", "woocommerce" >>

\* some pattern of the n-th signature occurs in the content, in either case
Occurs(n, content) ==
    \E q \in 1..Len(Signatures[n].patterns) : \E k \in 1..Len(content) :
        content[k] \in { Signatures[n].patterns[q] } \cup
                       { ch \in DocChars : FoldCase(ch) = Signatures[n].patterns[q] }

\* C13: detectContext returns the category of the first signature, in the
\* order elementor, wordpress, react, woocommerce, one of whose patterns
\* matches the content, and "unknown" exactly when none matches.
C13_FirstSignatureWins ==
    fix.pc # "idle" =>
        LET matching == { n \in 1..4 : Occurs(n, fix.content) }
        IN  /\ \A n \in 1..4 : Signatures[n].context = SignatureOrder[n]
            /\ (fix.context = "unknown") <=> (matching = {})
            /\ \A n \in matching :
                 (\A m \in matching : n <= m) => fix.context = SignatureOrder[n]

\* detection ran on a text that matches the woocommerce signature and,
\* after it and in the other case, the wordpress signature
C13_Witness ==
    /\ fix.pc # "idle"
    /\ Len(fix.content) >= 2 /\ fix.content[1] = "C" /\ fix.content[2] = "w"
    /\ fix.context = "wordpress"

\* the command ran the loop over the fixable rules to its end
FixesComputed == fix.pc = "done" /\ fix.message \in {"applied", "no matching issues"}

\* the fixable rules of the command's category
FixablesOfCommand == FixableRules(CachedRules(fix.context).rules)

\* the identities of the rules whose replace pattern occurs in the content at
\* their turn, in rule order
RECURSIVE AppliedIdents(_, _)
AppliedIdents(content, rules) ==
    IF rules = << >> THEN << >>
    ELSE LET rule == Head(rules)
             hit == Offsets(content, Literal(rule.fix.pattern)) # {}
             next == ApplyFix([threw |-> FALSE, content |-> content, applied |-> << >>], rule).content
         IN  (IF hit THEN << Ident(rule) >> ELSE << >>) \o AppliedIdents(next, Tail(rules))

\* C14: the applied list holds, in rule order, the identity (the id, or the
\* pattern text of a rule without id) of every fixable rule whose replace
\* pattern matched the content at its turn, and nothing else.
C14_AppliedIdentities ==
    FixesComputed => fix.applied = AppliedIdents(fix.content, FixablesOfCommand)

\* the content after each fixable rule, in rule order, has replaced every
\* occurrence of its replace pattern in the content it met
RECURSIVE GloballyFixed(_, _)
GloballyFixed(content, rules) ==
    IF rules = << >> THEN content
    ELSE LET replace == Head(rules).fix
             lit == Literal(replace.pattern)
         IN  GloballyFixed(IF Offsets(content, lit) = {} THEN content
                           ELSE ReplaceFrom(content, lit, replace.replacement, 0, TRUE),
                           Tail(rules))

\* C15: a fixable rule whose replace pattern matches the current content has
\* every occurrence of the pattern replaced, whatever flags its fix declares.
C15_GlobalReplace ==
    FixesComputed => fix.updated = GloballyFixed(fix.content, FixablesOfCommand)

\* the replace pattern of the rule is a regular expression that occurs in the
\* content
FixMatches(rule, content) ==
    /\ ~NewRegExp(rule.fix.pattern).threw
    /\ Offsets(content, Literal(rule.fix.pattern)) # {}

\* C16: when the replace pattern of no fixable rule matches the content, the
\* command ends with the content it read, an empty applied list, and no edit
\* of the document.
C16_NoMatchNoChange ==
    (/\ fix.pc \in {"done", "rejected"}
     /\ CachedRules(fix.context) # Null
     /\ \A r \in 1..Len(FixablesOfCommand) : ~FixMatches(FixablesOfCommand[r], fix.content))
    => /\ fix.edits = 0
       /\ FixesComputed => fix.updated = fix.content /\ fix.applied = << >>

\* the command ran the loop over two fixable rules on a text in which
\* neither pattern occurs
C16_Witness ==
    /\ FixesComputed
    /\ Len(FixablesOfCommand) = 2 /\ Len(fix.content) = 3
    /\ \A r \in 1..2 : ~FixMatches(FixablesOfCommand[r], fix.content)

\* C17: a file is audited only if cancellation was not requested when its
\* turn began; a file whose audit was under way when cancellation was
\* requested is audited to the end; and the results with issues of every file
\* audited are what the reporting step is given.
C17_CancelBetweenFiles ==
    /\ audit.pc = "auditing" /\ cancelRequested => audit.midFile = Len(audit.audited) + 1
    /\ audit.midFile # 0 /\ audit.pc \notin {"auditing", "rejected"} =>
         Len(audit.audited) >= audit.midFile
    /\ audit.pc = "displayed" =>
         audit.shown = SelectSeq(audit.audited, LAMBDA x : x.result.issues # << >>)

\* cancellation was requested during the audit of the first of two files;
\* its result was reported and the second file was not audited
C17_Witness ==
    /\ audit.pc = "displayed" /\ cancelRequested /\ audit.midFile = 1
    /\ Len(tree) = 2 /\ Len(audit.audited) = 1 /\ Len(audit.shown) = 1

\* C18: when the build of the rules failed with an exception, an audit of a
\* text of that category does not come back as a plain result without issues:
\* it fails, or its result says that the rules could not be loaded.
C18_LoadFailureIsExplicit ==
    \A c \in Calls : call[c].pc = "done" /\ call[c].caught =>
        \A content \in AuditContents : DetectContext(content) = call[c].context =>
            AuditFile(content, call[c].ret) #
                [threw |-> FALSE, context |-> call[c].context, issues |-> << >>]

\* a build whose other sources did not fail: the bundled rules were loaded
\* (or are absent) and every feed that answered with a document delivered a
\* rule set
OtherSourcesSound(rec) ==
    /\ rec.pc = "done" /\ ~rec.hit /\ rec.context # "unknown"
    /\ ext \in {"ok", "nofile"}
    /\ \A i \in 1..Len(rec.log) : rec.log[i].failed \/ Delivered(rec, i)

\* C19: an override file that cannot be parsed gives no workspace rules and a
\* config file that cannot be parsed gives no severity overrides and no
\* remote URLs; loadRules still returns the merge of the remaining sources
\* and stores it in the cache.
C19_UnparsableSkipped ==
    \A c \in Calls :
        LET rec == call[c]
            unparsableRules == wsFile[rec.context].state = "unparsable"
            unparsableConfig == cfgFile.state = "unparsable"
        IN  OtherSourcesSound(rec) /\ (unparsableRules \/ unparsableConfig) =>
              /\ unparsableRules => rec.ws = << >>
              /\ unparsableConfig =>
                   /\ rec.log = << >> /\ rec.results = << >>
                   /\ rec.ret # Null /\ rec.ret.rules = rec.merged
              /\ rec.ret # Null
              /\ rec.merged = MergeRuleSets(SourcesOf(rec)).val
              /\ { Ident(rec.ret.rules[i]) : i \in 1..Len(rec.ret.rules) } = IdentsOf(SourcesOf(rec))
              /\ rec.epoch = clears =>
                   /\ GetCacheKey(rec.context) \in DOMAIN rulesCache
                   /\ rulesCache[GetCacheKey(rec.context)] = rec.ret

\* a build with an unparsable override file returned the merge of the
\* bundled rules and the rules of two feeds
C19_Witness ==
    \E c \in Calls :
        /\ OtherSourcesSound(call[c]) /\ call[c].ret # Null /\ call[c].base # Null
        /\ wsFile[call[c].context].state = "unparsable"
        /\ Len(call[c].results) = 2

\* C20: a feed that answers with JSON that is no rule set does not make
\* loadRules fail: the build returns a rule set that holds the bundled and
\* workspace rules, and stores it in the cache.
C20_MalformedFeedSkipped ==
    \A c \in Calls :
        LET rec == call[c]
        IN  (/\ rec.pc = "done" /\ ~rec.hit /\ rec.context # "unknown"
             /\ ext \in {"ok", "nofile"}
             /\ \E i \in 1..Len(rec.log) :
                  ~rec.log[i].failed /\ rec.log[i].doc.shape # "ruleset")
            => /\ rec.ret # Null
               /\ IdentsOf((IF rec.base = Null THEN << >> ELSE << rec.base >>) \o rec.ws)
                    \subseteq { Ident(rec.ret.rules[i]) : i \in 1..Len(rec.ret.rules) }
               /\ rec.epoch = clears => GetCacheKey(rec.context) \in DOMAIN rulesCache

RuleIndex(rules, issue) == CHOOSE r \in 1..Len(rules) : rules[r] = issue.rule

\* the first position is before the second one in the text
Before(x, y) == x.line < y.line \/ (x.line = y.line /\ x.column < y.column)

\* C22: the issues of an audit are in the order of their rules in the rule
\* set, and the issues of one rule are in the order of their places in the
\* text.
C22_IssueOrder ==
    \A n \in Audits :
        LET issues == audit.audited[n].result.issues
            rules == RulesOf(n)
            index == [i \in 1..Len(issues) |-> RuleIndex(rules, issues[i])]
        IN  \A i, j \in 1..Len(issues) : i < j =>
              /\ index[i] <= index[j]
              /\ index[i] = index[j] => Before(issues[i], issues[j])

\* an audit reported an issue of an earlier rule before an issue of a later
\* rule that is at an earlier place in the text
C22_Witness ==
    \E n \in Audits :
        LET issues == audit.audited[n].result.issues
            rules == RulesOf(n)
        IN  \E i, j \in 1..Len(issues) :
              /\ i < j /\ RuleIndex(rules, issues[i]) < RuleIndex(rules, issues[j])
              /\ Before(issues[j], issues[i])

\* the rules a file of the workspace is scanned with: those of its category
\* that have a regular expression for pattern and are not mustExist rules
ScannedRules(content) ==
    LET ruleSet == CachedRules(DetectContext(content))
    IN  IF ruleSet = Null THEN {}
        ELSE { ruleSet.rules[r] : r \in { q \in 1..Len(ruleSet.rules) :
                   /\ ~ruleSet.rules[q].mustExist
                   /\ ~NewRegExp(ruleSet.rules[q].pattern).threw } }

\* C23: every turn of the match scan moves the scan position forward, by one
\* after a match of zero length, and never beyond one past the end of the
\* content; a scan reports at most one issue per offset, and a pattern that
\* matches the empty string is reported once at every offset up to the end.
C23_ScanTerminates ==
    /\ \A f \in 1..Len(tree) : \A rule \in ScannedRules(tree[f].content) :
         \A from \in 0..Len(tree[f].content) :
           LET match == Exec(tree[f].content, Literal(rule.pattern), from)
           IN  match.found =>
                 /\ Advance(match) > from
                 /\ Advance(match) <= Len(tree[f].content) + 1
                 /\ match.index = match.lastIndex => Advance(match) = match.index + 1
    /\ \A n \in Audits : \A rule \in ScannedRules(audit.audited[n].content) :
         LET mine == IssuesOf(n, rule)
             content == audit.audited[n].content
         IN  /\ Len(mine) <= Len(content) + 1
             /\ \A i, j \in 1..Len(mine) : i < j => Before(mine[i], mine[j])
             /\ Literal(rule.pattern) = << >> => Len(mine) = Len(content) + 1

\* an audit scanned a text of five characters, one of them a newline, for the
\* empty pattern and reported six issues
C23_Witness ==
    \E n \in Audits : \E rule \in ScannedRules(audit.audited[n].content) :
        /\ rule.pattern = "" /\ Len(audit.audited[n].content) = 5
        /\ Len(IssuesOf(n, rule)) = 6


\* the content after the first k fixable rules have had their turns, each on
\* the content its predecessors left
RECURSIVE ContentAfter(_, _, _)
ContentAfter(content, rules, k) ==
    IF k = 0 THEN content
    ELSE LET before == ContentAfter(content, rules, k - 1)
             replace == rules[k].fix
             lit == Literal(replace.pattern)
         IN  IF Offsets(before, lit) = {} THEN before
             ELSE ReplaceFrom(before, lit, replace.replacement, 0, IsGlobal(Flags(replace)))

\* the turns at which the rule's replace pattern occurs in the content the
\* earlier rules left
Turns(content, rules) ==
    { k \in 1..Len(rules) :
        Offsets(ContentAfter(content, rules, k - 1), Literal(rules[k].fix.pattern)) # {} }

\* C24: the fixes are applied in rule order, each tested against and applied
\* to the content the fixes before it produced: the computed content is the
\* result of the last turn, and the applied list has one entry for each rule
\* whose pattern occurred at its turn, in rule order.
C24_EachFixSeesThePrevious ==
    FixesComputed =>
        LET rules == FixablesOfCommand
            turns == Turns(fix.content, rules)
        IN  /\ fix.updated = ContentAfter(fix.content, rules, Len(rules))
            /\ Len(fix.applied) = Cardinality(turns)
            /\ \A k \in turns :
                 rules[k].id \notin {"", Undef} =>
                   fix.applied[Cardinality({ j \in turns : j <= k })] = rules[k].id

\* one rule's pattern occurs in the content read but no longer at its turn,
\* and another's occurs at its turn but not in the content read
C24_Witness ==
    /\ FixesComputed
    /\ \E j, k \in 1..Len(FixablesOfCommand) :
         /\ FixMatches(FixablesOfCommand[j], fix.content)
         /\ j \notin Turns(fix.content, FixablesOfCommand)
         /\ ~FixMatches(FixablesOfCommand[k], fix.content)
         /\ k \in Turns(fix.content, FixablesOfCommand)

\* C29: the command edits the document at most once, and only once every
\* fix has been computed without error and the computed content differs from
\* the content read; otherwise the document is as the command found it.
C29_OneEditAtTheEnd ==
    /\ fix.edits <= 1
    /\ fix.edits = 1 =>
         /\ FixesComputed
         /\ \A k \in 1..Len(FixablesOfCommand) :
              ~NewRegExp(FixablesOfCommand[k].fix.pattern).threw
         /\ fix.updated = ContentAfter(fix.content, FixablesOfCommand, Len(FixablesOfCommand))
         /\ fix.updated # fix.content
    /\ fix.pc = "rejected" => fix.edits = 0 /\ document = fix.seen
    /\ FixesComputed /\ fix.updated = fix.content => fix.edits = 0 /\ document = fix.seen

\* the command ended on an invalid replace pattern after an earlier rule's
\* fix had changed the content
C29_Witness ==
    /\ fix.pc = "rejected"
    /\ FixMatches(FixablesOfCommand[1], fix.content)
    /\ fix.edits = 0 /\ document = fix.seen

\* C30: after the command's edit the document is the result of the fixes on
\* the text the document had at the time of the edit, whatever the user did
\* to it while the command waited for the rules.
C30_WritesFromCurrentText ==
    fix.edits > 0 =>
        document = ContentAfter(fix.seen, FixablesOfCommand, Len(FixablesOfCommand))


\* C25: no two loadRules invocations have both built a rule set of one key
\* from sources they read between the same two clearCache events.
C25_LoadedOnce ==
    \A c, d \in Calls :
        (/\ c # d /\ Built(c) /\ Built(d)
         /\ call[c].context = call[d].context) => call[c].epoch # call[d].epoch

\* a fetch of the build failed
FeedFailed(log) == \E i \in 1..Len(log) : log[i].failed

MustThrow(rec) ==
    \/ ext \in {"nopath", "corrupt"}
    \/ \E i \in 1..Len(rec.log) :
         /\ ~rec.log[i].failed /\ rec.log[i].doc.shape # "ruleset"
         /\ rec.log[i].doc.context \in {Undef, rec.context}

\* C27: a build that fails returns null and stores nothing, the entries of
\* the cache stay what they were, and a call for a key that no build has
\* returned a rule set for, a failed build's key among them, builds again; a
\* call for the unknown category returns null and does no more.
C27_FailureLeavesCache ==
    /\ rulesCache = firstRet
    /\ \A c \in Calls :
         LET rec == call[c]
             key == GetCacheKey(rec.context)
         IN  /\ rec.pc = "done" /\ rec.context # "unknown" /\ ~rec.hit /\ MustThrow(rec) =>
                  rec.caught
             /\ rec.caught => rec.ret = Null /\ key \notin DOMAIN rulesCache
             /\ rec.pc = "done" /\ rec.context # "unknown" /\ rec.prior = Null =>
                  /\ ~rec.hit
                  /\ rec.caught \/ rec.ret # Null
             /\ rec.pc = "done" /\ rec.context = "unknown" =>
                  rec.ret = Null /\ rec.io = 0 /\ ~rec.hit /\ ~rec.caught

\* a build failed on a feed without rules while the cache held the rule set
\* of another key
C27_Witness ==
    \E c \in Calls :
        /\ call[c].caught /\ MustThrow(call[c])
        /\ \E key \in DOMAIN rulesCache : key # GetCacheKey(call[c].context)

\* the identities of the rules in order, each at its first occurrence
RECURSIVE FirstOccurrences(_, _)
FirstOccurrences(rules, seen) ==
    IF rules = << >> THEN << >>
    ELSE IF Ident(Head(rules)) \in seen THEN FirstOccurrences(Tail(rules), seen)
    ELSE << Ident(Head(rules)) >>
         \o FirstOccurrences(Tail(rules), seen \cup {Ident(Head(rules))})

\* the rules of the sets, one set after the other
RECURSIVE AllRules(_)
AllRules(sets) ==
    IF sets = << >> THEN << >> ELSE Head(sets).rules \o AllRules(Tail(sets))

\* C28: the identities of the merged list, in order, are the identities of
\* the rules of the sources in load order, each at its first occurrence.
C28_FirstOccurrenceOrder ==
    \A c \in Calls : Built(c) =>
        [i \in 1..Len(call[c].merged) |-> Ident(call[c].merged[i])]
            = FirstOccurrences(AllRules(SourcesOf(call[c])), {})

\* the first rule of the merged list was overwritten by the last source, and
\* the last one is of an identity that only a feed has
C28_Witness ==
    \E c \in Calls :
        /\ Built(c) /\ Len(call[c].results) >= 1 /\ call[c].base # Null
        /\ LET merged == call[c].merged
               last == call[c].results[Len(call[c].results)]
           IN  /\ Len(merged) = 3
               /\ \E i \in 1..Len(last.rules) : last.rules[i] = merged[1]
               /\ merged[1] # call[c].base.rules[1]
               /\ ~Has(call[c].base, Ident(merged[3]))

====
